---- MODULE Spec2Model ----
(***************************************************************************)
(* Jump Consistent Hash (hderms/jumphash): src/lib.rs and src/jumphash.rs. *)
(*                                                                         *)
(* TLC integers are 32 bits wide, so every u64 / i64 / f64 value of the    *)
(* program is kept as a little-endian sequence of bytes (base 256) and the *)
(* machine arithmetic is computed on those sequences: u64 and i64 values   *)
(* are 8-byte words (i64 in two's complement), intermediate naturals have  *)
(* as many bytes as they need.                                             *)
(***************************************************************************)
EXTENDS Integers, Sequences, FiniteSets, TLC

-----------------------------------------------------------------------------
(* Naturals of arbitrary size: little-endian byte sequences *)

Max(x, y) == IF x >= y THEN x ELSE y

Pow2(n) == 2 ^ n

\* byte i (1-based) of a; bytes past the end are zero
At(a, i) == IF i >= 1 /\ i <= Len(a) THEN a[i] ELSE 0

\* a function with domain 1..n as an explicit tuple
Tuple(f, n) == SubSeq(f, 1, n)

Zeros(n) == Tuple([i \in 1..n |-> 0], n)

\* a padded with zero bytes or truncated to exactly n bytes (a mod 256^n)
Fit(a, n) == Tuple([i \in 1..n |-> At(a, i)], n)

RECURSIVE TopByte(_, _)
\* index of the most significant non-zero byte among bytes 1..i of a (0: none)
TopByte(a, i) == IF i = 0 THEN 0 ELSE IF a[i] # 0 THEN i ELSE TopByte(a, i - 1)

\* a without its leading zero bytes
Trim(a) == SubSeq(a, 1, TopByte(a, Len(a)))

IsZero(a) == TopByte(a, Len(a)) = 0

RECURSIVE ByteBits(_)
\* number of significant bits of a byte value
ByteBits(x) == IF x = 0 THEN 0 ELSE 1 + ByteBits(x \div 2)

\* number of significant bits of a (0 for zero)
BitLen(a) == LET t == TopByte(a, Len(a))
             IN  IF t = 0 THEN 0 ELSE 8 * (t - 1) + ByteBits(a[t])

RECURSIVE NatBytes(_)
\* the byte sequence of a TLC integer n >= 0
NatBytes(n) == IF n = 0 THEN <<>> ELSE <<n % 256>> \o NatBytes(n \div 256)

RECURSIVE CmpFrom(_, _, _)
\* compares bytes i..1 of a and b: -1, 0 or 1
CmpFrom(a, b, i) ==
    IF i = 0 THEN 0
    ELSE IF At(a, i) < At(b, i) THEN -1
    ELSE IF At(a, i) > At(b, i) THEN 1
    ELSE CmpFrom(a, b, i - 1)

NCmp(a, b) == CmpFrom(a, b, Max(Len(a), Len(b)))
NLt(a, b) == NCmp(a, b) = -1
NLe(a, b) == NCmp(a, b) <= 0
NEq(a, b) == NCmp(a, b) = 0

RECURSIVE AddFrom(_, _, _, _, _)
\* bytes i..n of a + b + c
AddFrom(a, b, i, c, n) ==
    IF i > n THEN <<>>
    ELSE LET s == At(a, i) + At(b, i) + c
         IN  <<s % 256>> \o AddFrom(a, b, i + 1, s \div 256, n)

\* a + b, exact
NAdd(a, b) == AddFrom(a, b, 1, 0, Max(Len(a), Len(b)) + 1)

RECURSIVE SubFrom(_, _, _, _, _)
\* bytes i..n of a - b - c (mod 256^n)
SubFrom(a, b, i, c, n) ==
    IF i > n THEN <<>>
    ELSE LET s == At(a, i) - At(b, i) - c
         IN  IF s < 0 THEN <<s + 256>> \o SubFrom(a, b, i + 1, 1, n)
                      ELSE <<s>> \o SubFrom(a, b, i + 1, 0, n)

\* a - b for a >= b
NSub(a, b) == SubFrom(a, b, 1, 0, Len(a))

RECURSIVE ColSum(_, _, _, _)
\* sum of a[i] * b[k + 1 - i] over i = 1..m
ColSum(a, b, k, m) ==
    IF m = 0 THEN 0 ELSE At(a, m) * At(b, k + 1 - m) + ColSum(a, b, k, m - 1)

RECURSIVE MulFrom(_, _, _, _, _)
\* bytes k..n of a * b, c being the carry into column k
MulFrom(a, b, k, c, n) ==
    IF k > n THEN <<>>
    ELSE LET s == ColSum(a, b, k, IF k < Len(a) THEN k ELSE Len(a)) + c
         IN  <<s % 256>> \o MulFrom(a, b, k + 1, s \div 256, n)

\* a * b, exact
NMul(a, b) ==
    LET x == Trim(a)
        y == Trim(b)
    IN  MulFrom(x, y, 1, 0, Len(x) + Len(y))

\* a shifted left by n bits, exact
NShl(a, n) ==
    LET q == n \div 8
        r == n % 8
        lo == Pow2(8 - r)
    IN  Tuple([i \in 1..(Len(a) + q + 1) |->
                 ((At(a, i - q) % lo) * Pow2(r)) + (At(a, i - q - 1) \div lo)],
              Len(a) + q + 1)

\* a shifted right by n bits (logical)
NShr(a, n) ==
    LET q == n \div 8
        r == n % 8
        lo == Pow2(r)
    IN  Tuple([i \in 1..Max(Len(a) - q, 0) |->
                 (At(a, i + q) \div lo) + ((At(a, i + q + 1) % lo) * Pow2(8 - r))],
              Max(Len(a) - q, 0))

\* a mod 2^n
NLowBits(a, n) ==
    LET q == n \div 8
        r == n % 8
    IN  Tuple([i \in 1..(q + 1) |-> IF i <= q THEN At(a, i) ELSE At(a, i) % Pow2(r)],
              q + 1)

\* bit i (0-based) of a
BitAt(a, i) == (At(a, (i \div 8) + 1) \div Pow2(i % 8)) % 2

\* a * t for a byte value t
NMulByte(a, t) == MulFrom(a, <<t>>, 1, 0, Len(a) + 1)

RECURSIVE QuotDigit(_, _, _, _)
\* the largest t in acc..(acc + 2^(bit+1) - 1) with t * d <= r, found bit by bit
QuotDigit(r, d, bit, acc) ==
    IF bit < 0 THEN acc
    ELSE IF NLe(NMulByte(d, acc + Pow2(bit)), r)
         THEN QuotDigit(r, d, bit - 1, acc + Pow2(bit))
         ELSE QuotDigit(r, d, bit - 1, acc)

\* one step of long division in base 256: p = <<q, r>> of the bytes above byte b
DivStep(b, p, d) ==
    LET r == <<b>> \o p[2]
        t == QuotDigit(r, d, 7, 0)
    IN  <<(<<t>> \o p[1]), Fit(SubFrom(r, NMulByte(d, t), 1, 0, Len(d) + 1), Len(d))>>

RECURSIVE DivFrom(_, _, _)
\* <<quotient, remainder>> of bytes i..Len(n) of n by d (the test on p makes
\* TLC evaluate the upper bytes first)
DivFrom(n, d, i) ==
    IF i > Len(n) THEN <<(<<>>), Zeros(Len(d))>>
    ELSE LET p == DivFrom(n, d, i + 1)
         IN  IF Len(p) = 2 THEN DivStep(n[i], p, d) ELSE <<>>

\* the TLC integer of a natural below 2^31
ToInt(a) == At(a, 1) + 256 * At(a, 2) + 65536 * At(a, 3) + 16777216 * At(a, 4)

RECURSIVE BitsDiv(_, _, _, _, _)
\* long division by d = dm1 + 1 <= 2^31 on TLC integers, bits bit..0 of the
\* byte x: r < d is the remainder so far, q the quotient bits so far. With
\* v the next bit, 2r + v >= d exactly when r - (dm1 - r) >= 1 - v, and then
\* the new remainder 2r + v - d is r - (dm1 - r) - (1 - v)
BitsDiv(r, dm1, x, bit, q) ==
    IF bit < 0 THEN <<q, r>>
    ELSE LET v == (x \div Pow2(bit)) % 2
             g == r - (dm1 - r)
         IN  IF g >= 1 - v
             THEN BitsDiv(g - (1 - v), dm1, x, bit - 1, q + Pow2(bit))
             ELSE BitsDiv(r + r + v, dm1, x, bit - 1, q)

RECURSIVE SmallDivFrom(_, _, _)
\* <<quotient bytes, remainder>> of bytes i..Len(n) of n by dm1 + 1 <= 2^31
SmallDivFrom(n, dm1, i) ==
    IF i > Len(n) THEN <<(<<>>), 0>>
    ELSE LET p == SmallDivFrom(n, dm1, i + 1)
             s == BitsDiv(p[2], dm1, n[i], 7, 0)
         IN  IF p[2] >= 0 THEN <<(<<s[1]>> \o p[1]), s[2]>> ELSE <<>>

\* <<n div d, n mod d>> for d # 0; a divisor of at most 2^31 is divided by
\* on TLC integers
NDivMod(n, d) ==
    LET nn == Trim(n)
        dd == Trim(d)
        dm1 == Trim(NSub(dd, <<1>>))
        sm == SmallDivFrom(nn, ToInt(dm1), 1)
    IN  IF BitLen(dm1) <= 31
        THEN <<sm[1], NatBytes(sm[2])>>
        ELSE DivFrom(nn, dd, 1)

-----------------------------------------------------------------------------
(* Machine integers: u64 and i64 are 8-byte words, u32 is a 4-byte word *)

\* the u64 / i64 whose value is the TLC integer n >= 0
Word(n) == Fit(NatBytes(n), 8)

\* u64::wrapping_mul, i64::wrapping_mul
wrapping_mul(a, b) == MulFrom(a, b, 1, 0, 8)

\* u64::wrapping_add, i64::wrapping_add
wrapping_add(a, b) == AddFrom(a, b, 1, 0, 8)

\* u64 >> n (logical shift)
ShrU64(a, n) == Fit(NShr(a, n), 8)

\* i64 << n
ShlI64(a, n) == Fit(NShl(a, n), 8)

\* sign bit of an i64
IsNeg(w) == w[8] >= 128

\* 2^63: the magnitude of i64::MIN
MinMag == <<0, 0, 0, 0, 0, 0, 0, 128>>

I64Max == <<255, 255, 255, 255, 255, 255, 255, 127>>

\* the i64 -w (wrapping)
NegI64(w) == SubFrom(Zeros(8), w, 1, 0, 8)

\* |w| as a natural
Abs(w) == IF IsNeg(w) THEN NegI64(w) ELSE w

\* a < b on i64
LtI64(a, b) == IF IsNeg(a) # IsNeg(b) THEN IsNeg(a) ELSE NLt(a, b)

\* a <= b on i64
LeI64(a, b) == ~LtI64(b, a)

\* a * b on i64 overflows (panics when overflow checks are compiled in)
MulOverflows(a, b) ==
    LET mag == NMul(Abs(a), Abs(b))
    IN  IF IsNeg(a) # IsNeg(b) THEN NLt(MinMag, mag) ELSE NLe(MinMag, mag)

\* a / b on i64 panics: division by zero, or i64::MIN / -1
DivPanics(a, b) == IsZero(b) \/ (a = MinMag /\ b = NegI64(Word(1)))

\* a / b on i64, truncated toward zero (b # 0)
DivI64(a, b) ==
    LET q == Fit(NDivMod(Abs(a), Abs(b))[1], 8)
    IN  IF IsNeg(a) # IsNeg(b) THEN NegI64(q) ELSE q

\* x as i64, x as u64 for a u32 x (zero extension)
Widen(x) == Fit(x, 8)

\* w as u32 (keeps the low 32 bits)
AsU32(w) == Fit(w, 4)

-----------------------------------------------------------------------------
(* f64: kind "fin" is (-1)^neg * m * 2^e with m < 2^53; "inf", "nan" *)

F64Zero(neg) == [kind |-> "fin", neg |-> neg, m |-> <<>>, e |-> 0]

\* the f64 nearest to (-1)^neg * n * 2^e, round to nearest, ties to even;
\* sticky: the exact value is above n * 2^e by less than 2^e (then n has
\* at least 55 bits)
F64Round(neg, n, e, sticky) ==
    LET L == BitLen(n)
        sh == L - 53
        M == NShr(n, sh)
        c == NCmp(NLowBits(n, sh), NShl(<<1>>, sh - 1))
        up == c = 1 \/ (c = 0 /\ (sticky \/ BitAt(M, 0) = 1))
        M2 == IF up THEN NAdd(M, <<1>>) ELSE M
    IN  IF L <= 53 THEN [kind |-> "fin", neg |-> neg, m |-> Trim(n), e |-> e]
        ELSE IF BitLen(M2) = 54
             THEN [kind |-> "fin", neg |-> neg, m |-> Trim(NShr(M2, 1)), e |-> e + sh + 1]
             ELSE [kind |-> "fin", neg |-> neg, m |-> Trim(M2), e |-> e + sh]

\* w as f64 for an i64 w
I64ToF64(w) == F64Round(IsNeg(w), Abs(w), 0, FALSE)

\* w as f64 for a u64 w
U64ToF64(w) == F64Round(FALSE, w, 0, FALSE)

\* x * y on finite f64
F64Mul(x, y) == F64Round(x.neg # y.neg, NMul(x.m, y.m), x.e + y.e, FALSE)

\* x / y on finite f64
F64Div(x, y) ==
    LET s == Max(0, 55 + BitLen(y.m) - BitLen(x.m))
        qr == NDivMod(NShl(x.m, s), y.m)
    IN  IF IsZero(y.m)
        THEN IF IsZero(x.m) THEN [kind |-> "nan"]
                            ELSE [kind |-> "inf", neg |-> (x.neg # y.neg)]
        ELSE IF IsZero(x.m) THEN F64Zero(x.neg # y.neg)
        ELSE F64Round(x.neg # y.neg, qr[1], x.e - y.e - s, ~IsZero(qr[2]))

\* x as i64 for an f64 x: truncates toward zero, saturates, NaN gives 0
F64ToI64(x) ==
    LET mag == IF x.e >= 0 THEN NShl(x.m, x.e) ELSE NShr(x.m, 0 - x.e)
    IN  IF x.kind = "nan" THEN Zeros(8)
        ELSE IF x.kind = "inf" THEN (IF x.neg THEN MinMag ELSE I64Max)
        ELSE IF x.neg THEN (IF NLe(MinMag, mag) THEN MinMag ELSE NegI64(Fit(mag, 8)))
        ELSE (IF NLe(MinMag, mag) THEN I64Max ELSE Fit(mag, 8))

-----------------------------------------------------------------------------
(* The program: lib.rs ("lib") and jumphash.rs ("jumphash") *)

\* const LCG_CONSTANT: u64 = 2862933555777941757
LCG_CONSTANT == <<253, 176, 176, 135, 230, 46, 187, 39>>

\* AssertBuckets with the assertion left out
AssertNothing(n) == TRUE

\* assert!(buckets >= 1)
AssertBuckets(n) == NLe(<<1>>, n)

\* LoopInit with the LCG seeded by the key mixed with the bucket count
LoopInitSalted(seed, n) ==
    [b |-> NegI64(Word(1)), j |-> Word(0), key |-> wrapping_add(seed, Widen(n))]

\* let mut b: i64 = -1; let mut j: i64 = 0; let mut key = key;
LoopInit(seed, n) == [b |-> NegI64(Word(1)), j |-> Word(0), key |-> seed]

\* LoopCond off by one: while j <= buckets as i64
LoopCondInclusive(jv, n) == LeI64(jv, Widen(n))

\* while j < buckets as i64
LoopCond(jv, n) == LtI64(jv, Widen(n))

\* LcgStep with the increment left out
LcgStepNoIncrement(h) == wrapping_mul(h, LCG_CONSTANT)

\* key.wrapping_mul(LCG_CONSTANT).wrapping_add(1)
LcgStep(h) == wrapping_add(wrapping_mul(h, LCG_CONSTANT), Word(1))

\* Divisor with a shift by 32
Divisor32(h) == wrapping_add(ShrU64(h, 32), Word(1))

\* (key >> 33).wrapping_add(1)
Divisor(h) == wrapping_add(ShrU64(h, 33), Word(1))

\* Numerator with b in place of b + 1
NumeratorNoIncrement(bv) == bv

\* b.wrapping_add(1)
Numerator(bv) == wrapping_add(bv, Word(1))

\* Scale with a shift by 32: 1i64 << 32
Scale32 == ShlI64(Word(1), 32)

\* 1i64 << 31
Scale == ShlI64(Word(1), 31)

\* lib.rs: (b.wrapping_add(1) * (1i64 << 31)) / ((key >> 33).wrapping_add(1) as i64)
LibNextJ(bv, h) == DivI64(wrapping_mul(Numerator(bv), Scale), Divisor(h))

\* jumphash.rs: (((b.wrapping_add(1) as f64) * ((1i64 << 31) as f64))
\*                 / ((key >> 33).wrapping_add(1) as f64)) as i64
JumphashNextJ(bv, h) ==
    F64ToI64(F64Div(F64Mul(I64ToF64(Numerator(bv)), I64ToF64(Scale)),
                    U64ToF64(Divisor(h))))

\* what the assignment to j can do: the i64 division panics on a zero divisor
\* (and on i64::MIN / -1); the unchecked i64 product panics on overflow in a
\* build with overflow checks and wraps in a build without them; the f64
\* form never panics
IterOutcomes(im, bv, h) ==
    IF im = "jumphash" THEN {[pc |-> "loop", j |-> JumphashNextJ(bv, h)]}
    ELSE IF DivPanics(wrapping_mul(Numerator(bv), Scale), Divisor(h))
         THEN {[pc |-> "panicked", j |-> bv]}
         ELSE {[pc |-> "loop", j |-> LibNextJ(bv, h)]}
              \cup (IF MulOverflows(Numerator(bv), Scale)
                    THEN {[pc |-> "panicked", j |-> bv]} ELSE {})

\* Slot with the locals as statics: one frame shared by every thread
SharedSlot(t) == 1

\* the frame holding the locals b, j, key of thread t's call
Slot(t) == t

VARIABLES
    pc,      \* per thread: "idle", "hash", "loop", "done", "panicked"
    call,    \* per thread: the entry point called and its arguments
    key,     \* per frame: the local key (the LCG state)
    b,       \* per frame: the local b
    j,       \* per frame: the local j
    ret,     \* per thread: the u32 returned by the last completed call
    iters,   \* per thread: loop iterations executed by the call (history)
    trace,   \* per thread: the <<b, key>> pairs after each iteration (history)
    hashed   \* per thread: the call has run the hasher (history)

vars == <<pc, call, key, b, j, ret, iters, trace, hashed>>

NoCall == [impl |-> "lib", entry |-> "u64", skey |-> "", seed |-> Word(0),
           buckets |-> Zeros(4)]

InitOver(T) ==
    /\ pc = [t \in T |-> "idle"]
    /\ call = [t \in T |-> NoCall]
    /\ key = [t \in T |-> Word(0)]
    /\ b = [t \in T |-> Word(0)]
    /\ j = [t \in T |-> Word(0)]
    /\ ret = [t \in T |-> Zeros(4)]
    /\ iters = [t \in T |-> 0]
    /\ trace = [t \in T |-> <<>>]
    /\ hashed = [t \in T |-> FALSE]

\* entry of jump_hash_from_u64(seed, n): the assertion, then the locals
EnterU64(t, seed, n) ==
    IF AssertBuckets(n)
    THEN /\ pc' = [pc EXCEPT ![t] = "loop"]
         /\ key' = [key EXCEPT ![Slot(t)] = LoopInit(seed, n).key]
         /\ b' = [b EXCEPT ![Slot(t)] = LoopInit(seed, n).b]
         /\ j' = [j EXCEPT ![Slot(t)] = LoopInit(seed, n).j]
    ELSE /\ pc' = [pc EXCEPT ![t] = "panicked"]
         /\ UNCHANGED <<key, b, j>>

\* a caller on thread t calls jump_hash_from_u64(seed, n) of module im
CallU64(t, im, seed, n) ==
    /\ pc[t] = "idle"
    /\ call' = [call EXCEPT ![t] = [impl |-> im, entry |-> "u64", skey |-> "",
                                    seed |-> seed, buckets |-> n]]
    /\ ret' = [ret EXCEPT ![t] = Zeros(4)]
    /\ iters' = [iters EXCEPT ![t] = 0]
    /\ trace' = [trace EXCEPT ![t] = <<>>]
    /\ hashed' = [hashed EXCEPT ![t] = FALSE]
    /\ EnterU64(t, seed, n)

\* a caller on thread t calls jump_hash_from_str(k, n) of module im: the
\* assertion comes first
CallStr(t, im, k, n) ==
    /\ pc[t] = "idle"
    /\ call' = [call EXCEPT ![t] = [impl |-> im, entry |-> "str", skey |-> k,
                                    seed |-> Word(0), buckets |-> n]]
    /\ ret' = [ret EXCEPT ![t] = Zeros(4)]
    /\ iters' = [iters EXCEPT ![t] = 0]
    /\ trace' = [trace EXCEPT ![t] = <<>>]
    /\ hashed' = [hashed EXCEPT ![t] = FALSE]
    /\ pc' = [pc EXCEPT ![t] = IF AssertBuckets(n) THEN "hash" ELSE "panicked"]
    /\ UNCHANGED <<key, b, j>>

\* jump_hash_from_str: DefaultHasher::new(); key.hash(..); hasher.finish();
\* then jump_hash_from_u64(key, buckets). The hasher is std's, not code of
\* this repository: its result is some u64, drawn here from the set D
Digest(t, D) ==
    /\ pc[t] = "hash"
    /\ \E h \in D :
          /\ call' = [call EXCEPT ![t].seed = h]
          /\ EnterU64(t, h, call[t].buckets)
    /\ hashed' = [hashed EXCEPT ![t] = TRUE]
    /\ UNCHANGED <<ret, iters, trace>>

\* one iteration of the while loop
LoopIter(t) ==
    /\ pc[t] = "loop"
    /\ LoopCond(j[Slot(t)], call[t].buckets)
    /\ LET nb == j[Slot(t)]
           nk == LcgStep(key[Slot(t)])
       IN  /\ b' = [b EXCEPT ![Slot(t)] = nb]
           /\ key' = [key EXCEPT ![Slot(t)] = nk]
           /\ \E o \in IterOutcomes(call[t].impl, nb, nk) :
                 /\ j' = [j EXCEPT ![Slot(t)] = o.j]
                 /\ pc' = [pc EXCEPT ![t] = o.pc]
           /\ trace' = [trace EXCEPT ![t] = Append(@, <<nb, nk>>)]
    /\ iters' = [iters EXCEPT ![t] = @ + 1]
    /\ UNCHANGED <<call, ret, hashed>>

\* Result with j in place of b: j as u32
ResultJ(t) == AsU32(j[Slot(t)])

\* b as u32
Result(t) == AsU32(b[Slot(t)])

\* the loop condition fails: the function returns b as u32
Return(t) ==
    /\ pc[t] = "loop"
    /\ ~LoopCond(j[Slot(t)], call[t].buckets)
    /\ ret' = [ret EXCEPT ![t] = Result(t)]
    /\ pc' = [pc EXCEPT ![t] = "done"]
    /\ UNCHANGED <<call, key, b, j, iters, trace, hashed>>

\* the caller has the call's outcome (the value returned, or the panic the
\* #[should_panic] tests expect) and goes on to its next call: the tests call
\* in a loop
Resume(t) ==
    /\ pc[t] \in {"done", "panicked"}
    /\ pc' = [pc EXCEPT ![t] = "idle"]
    /\ call' = [call EXCEPT ![t] = NoCall]
    /\ ret' = [ret EXCEPT ![t] = Zeros(4)]
    /\ iters' = [iters EXCEPT ![t] = 0]
    /\ trace' = [trace EXCEPT ![t] = <<>>]
    /\ hashed' = [hashed EXCEPT ![t] = FALSE]
    /\ key' = [key EXCEPT ![Slot(t)] = Word(0)]
    /\ b' = [b EXCEPT ![Slot(t)] = Word(0)]
    /\ j' = [j EXCEPT ![Slot(t)] = Word(0)]

-----------------------------------------------------------------------------
(* Callers and their inputs *)

\* the u32 whose value is the TLC integer n >= 0
U32(n) == Fit(NatBytes(n), 4)

\* small seeds 0..MaxSeed and small bucket counts 0..MaxBuckets
MaxSeed == 1
MaxBuckets == 19

\* bucket counts 1..MaxPairBuckets for the two-thread specification
MaxPairBuckets == 4

\* the seeds of test::matches_reference_code (the seed 1 is a small seed)
SeedDeadbeef == <<239, 190, 173, 222, 0, 0, 0, 0>>
SeedDdc0ffee == <<13, 240, 173, 235, 254, 15, 220, 13>>

\* 0x201997f8666313ab and 0x40332ff0ccc62756: the seeds whose first LCG step
\* gives key = 0 and key = 2^64 - 1, the two ends of the divisor's range
SeedToZero == <<171, 19, 99, 102, 248, 151, 25, 32>>
SeedToOnes == <<86, 39, 198, 204, 240, 47, 51, 64>>

\* seed 0xe78150e58bf4f9db with 1187545616 buckets: the second iteration's
\* quotient is within half an ulp of the next integer
DivergentSeed == <<219, 249, 244, 139, 229, 80, 129, 231>>
DivergentBuckets == <<16, 130, 200, 70>>

\* u32::MAX
U32Max == <<255, 255, 255, 255>>

Impls == {"lib", "jumphash"}

Seeds == {Word(n) : n \in 0..MaxSeed}
            \cup {SeedDeadbeef, SeedDdc0ffee, SeedToZero, SeedToOnes, DivergentSeed}

Buckets == {U32(n) : n \in 0..MaxBuckets} \cup {DivergentBuckets, U32Max}

StrKeys == {"", "foobar"}

RefSeeds == {Word(1), SeedDeadbeef, SeedDdc0ffee}

\* the calls of the two-thread specification: <<module, seed, buckets>>
PairCalls == ({"lib"} \X RefSeeds \X {U32(n) : n \in 1..MaxPairBuckets})
                \cup (Impls \X {DivergentSeed} \X {DivergentBuckets})

Threads == {1}

PairThreads == {1, 2}

\* one caller, every entry point of both modules
Init == InitOver(Threads)

Next ==
    \E t \in Threads :
        \/ \E im \in Impls, s \in Seeds, n \in Buckets : CallU64(t, im, s, n)
        \/ \E im \in Impls, k \in StrKeys, n \in Buckets : CallStr(t, im, k, n)
        \/ Digest(t, Seeds)
        \/ LoopIter(t)
        \/ Return(t)
        \/ Resume(t)

Spec == Init /\ [][Next]_vars

\* two threads calling jump_hash_from_u64 concurrently
InitPair == InitOver(PairThreads)

NextPair ==
    \E t \in PairThreads :
        \/ \E c \in PairCalls : CallU64(t, c[1], c[2], c[3])
        \/ LoopIter(t)
        \/ Return(t)
        \/ Resume(t)

SpecPair == InitPair /\ [][NextPair]_vars

-----------------------------------------------------------------------------
(* The reference vectors of test::matches_reference_code, bucket counts 1..19 *)

RefVector(seed) ==
    CASE seed = Word(1) ->
            <<0, 0, 0, 0, 0, 0, 6, 6, 6, 6, 6, 6, 6, 6, 6, 6, 6, 17, 17>>
      [] seed = SeedDeadbeef ->
            <<0, 1, 2, 3, 3, 5, 5, 5, 5, 5, 5, 5, 5, 5, 5, 5, 16, 16, 16>>
      [] seed = SeedDdc0ffee ->
            <<0, 1, 2, 2, 2, 2, 2, 2, 2, 2, 2, 2, 2, 2, 2, 15, 15, 15, 15>>

-----------------------------------------------------------------------------
(* Properties *)

ThreadIds == DOMAIN pc

\* thread t has returned from a call of module im
Returned(t, im) == pc[t] = "done" /\ call[t].impl = im

\* thread t is in, or has returned from, the loop of module im after at
\* least one iteration
Iterated(t, im) == pc[t] \in {"loop", "done"} /\ call[t].impl = im /\ iters[t] >= 1

IsPrefix(s1, s2) == Len(s1) <= Len(s2) /\ SubSeq(s2, 1, Len(s1)) = s1

\* the number of visited pairs of tr whose b is below the bucket count n
VisitedBelow(tr, n) == Cardinality({i \in 1..Len(tr) : LtI64(tr[i][1], Widen(n))})

\* C1 (range): every call of lib.rs jump_hash_from_u64, made directly or by
\* jump_hash_from_str on the digest, returns an index below its bucket count.
C1_Range ==
    \A t \in ThreadIds : Returned(t, "lib") => NLt(ret[t], call[t].buckets)

\* C1 witness: jump_hash_from_str has returned the last index, buckets - 1,
\* of a call with more than one bucket.
C1_Witness ==
    \E t \in ThreadIds :
        /\ Returned(t, "lib") /\ call[t].entry = "str"
        /\ NLt(<<1>>, call[t].buckets)
        /\ NAdd(ret[t], <<1>>) = Fit(call[t].buckets, 5)

\* C3 (precondition): a call with buckets = 0, of either entry point, is
\* panicked as soon as it is made: it never hashes, never iterates, never
\* returns.
C3_ZeroBucketsPanics ==
    \A t \in ThreadIds :
        (pc[t] # "idle" /\ call[t].impl = "lib" /\ IsZero(call[t].buckets))
            => (pc[t] = "panicked" /\ iters[t] = 0 /\ ~hashed[t])

\* C3 witness: jump_hash_from_str(key, 0) has panicked.
C3_Witness ==
    \E t \in ThreadIds :
        /\ pc[t] = "panicked" /\ call[t].impl = "lib" /\ call[t].entry = "str"
        /\ IsZero(call[t].buckets)

\* C4 (reference vectors): for the three reference seeds and bucket counts
\* 1..19, jump_hash_from_u64 (of lib.rs and of jumphash.rs, both have the
\* test) returns the published index.
C4_ReferenceVectors ==
    \A t \in ThreadIds :
        (pc[t] = "done" /\ call[t].seed \in RefSeeds) =>
            \A n \in 1..Len(RefVector(call[t].seed)) :
                call[t].buckets = U32(n) => ret[t] = U32(RefVector(call[t].seed)[n])

\* C4 witness: lib.rs returned 16 for seed 0xdeadbeef and 17 buckets.
C4_Witness ==
    \E t \in ThreadIds :
        /\ Returned(t, "lib") /\ call[t].entry = "u64"
        /\ call[t].seed = SeedDeadbeef /\ call[t].buckets = U32(17)
        /\ ret[t] = U32(16)

\* C7 (termination bound): the loop of lib.rs has run at most `buckets`
\* iterations at any point, every iteration leaves j >= b + 1, when `buckets`
\* iterations have run the loop condition is false (the next step is the
\* return), a returned call has run at least one, and a call with
\* buckets >= 1 never panics.
C7_IterationBound ==
    \A t \in ThreadIds :
        /\ (pc[t] \in {"loop", "done"} /\ call[t].impl = "lib") =>
              /\ NLe(NatBytes(iters[t]), call[t].buckets)
              /\ (NatBytes(iters[t]) = Trim(call[t].buckets) /\ pc[t] = "loop")
                    => ~LoopCond(j[Slot(t)], call[t].buckets)
        /\ Iterated(t, "lib") => LeI64(wrapping_add(b[Slot(t)], Word(1)), j[Slot(t)])
        /\ Returned(t, "lib") => iters[t] >= 1
        /\ (call[t].impl = "lib" /\ ~IsZero(call[t].buckets)) => pc[t] # "panicked"

\* C7 witness: a call with 4 buckets returned after 4 iterations.
C7_Witness ==
    \E t \in ThreadIds :
        Returned(t, "lib") /\ call[t].buckets = U32(4) /\ iters[t] = 4

\* C9 (divisor): after every iteration, of either module, the divisor
\* (key >> 33) + 1 it divided by is at least 1 and at most 2^31, the addition
\* did not wrap, and it is positive as an i64.
C9_DivisorRange ==
    \A t \in ThreadIds :
        (pc[t] # "idle" /\ iters[t] >= 1) =>
            LET d == Divisor(key[Slot(t)])
            IN  /\ ~IsZero(d)
                /\ NLe(d, <<0, 0, 0, 128>>)
                /\ ~IsNeg(d)
                /\ NEq(d, NAdd(NShr(key[Slot(t)], 33), <<1>>))

\* C9 witness: an iteration divided by 2^31, the largest divisor (the key
\* was 2^64 - 1).
C9_Witness ==
    \E t \in ThreadIds :
        /\ pc[t] = "loop" /\ iters[t] >= 1
        /\ Divisor(key[Slot(t)]) = <<0, 0, 0, 128, 0, 0, 0, 0>>

\* C10 (no overflow, lossless cast): after every iteration of lib.rs
\* 0 <= b < buckets, so b + 1 does not wrap and (b + 1) * 2^31 does not
\* overflow an i64; the call never panics; the u32 returned is b itself.
C10_NoOverflow ==
    \A t \in ThreadIds :
        /\ Iterated(t, "lib") =>
              /\ ~IsNeg(b[Slot(t)])
              /\ LtI64(b[Slot(t)], Widen(call[t].buckets))
              /\ b[Slot(t)] # I64Max
              /\ ~MulOverflows(wrapping_add(b[Slot(t)], Word(1)), ShlI64(Word(1), 31))
        /\ Returned(t, "lib") => Widen(ret[t]) = b[Slot(t)]
        /\ (call[t].impl = "lib" /\ ~IsZero(call[t].buckets)) => pc[t] # "panicked"

\* C10 witness: with u32::MAX buckets lib.rs returned an index of 2^31 or
\* more (b + 1 has 32 bits, the product 63).
C10_Witness ==
    \E t \in ThreadIds :
        /\ Returned(t, "lib") /\ call[t].buckets = U32Max
        /\ ret[t][4] >= 128

\* C2 (minimal disruption): two returned calls of lib.rs with the same seed
\* and bucket counts N and N + 1: the second index is the first, or N.
C2_MinimalDisruption ==
    \A t, u \in ThreadIds :
        (/\ Returned(t, "lib") /\ Returned(u, "lib")
         /\ call[t].seed = call[u].seed
         /\ NAdd(call[t].buckets, <<1>>) = Fit(call[u].buckets, 5))
            => (ret[u] = ret[t] \/ ret[u] = call[t].buckets)

\* C2 witness: the key moved, to the new bucket N.
C2_Witness ==
    \E t, u \in ThreadIds :
        /\ Returned(t, "lib") /\ Returned(u, "lib")
        /\ call[t].seed = call[u].seed
        /\ NAdd(call[t].buckets, <<1>>) = Fit(call[u].buckets, 5)
        /\ ret[u] # ret[t] /\ ret[u] = call[t].buckets

\* C5 (determinism): two returned calls of lib.rs jump_hash_from_u64 with
\* the same arguments, on any threads and after any other calls, returned
\* the same index and visited the same states.
C5_Deterministic ==
    \A t, u \in ThreadIds :
        (/\ Returned(t, "lib") /\ Returned(u, "lib")
         /\ call[t].seed = call[u].seed /\ call[t].buckets = call[u].buckets)
            => (ret[t] = ret[u] /\ trace[t] = trace[u])

\* C5 witness: two threads have returned from the same call, of more than
\* one iteration.
C5_Witness ==
    \E t, u \in ThreadIds :
        /\ t # u /\ Returned(t, "lib") /\ Returned(u, "lib")
        /\ call[t].seed = call[u].seed /\ call[t].buckets = call[u].buckets
        /\ iters[t] >= 2

\* C6 (integer division = f64 division): a returned call of lib.rs and a
\* returned call of jumphash.rs with the same seed and bucket count returned
\* the same index.
C6_SameAsF64 ==
    \A t, u \in ThreadIds :
        (/\ Returned(t, "lib") /\ Returned(u, "jumphash")
         /\ call[t].seed = call[u].seed /\ call[t].buckets = call[u].buckets)
            => ret[t] = ret[u]

\* C8 (prefix): two returned calls of lib.rs with the same seed and bucket
\* counts N <= M: the <<b, key>> pairs the first visited are a prefix of the
\* pairs the second visited, namely those of them with b < N.
C8_Prefix ==
    \A t, u \in ThreadIds :
        (/\ Returned(t, "lib") /\ Returned(u, "lib")
         /\ call[t].seed = call[u].seed
         /\ NLe(call[t].buckets, call[u].buckets))
            => /\ IsPrefix(trace[t], trace[u])
               /\ Len(trace[t]) = VisitedBelow(trace[u], call[t].buckets)

\* C8 witness: the call with fewer buckets stopped at least two iterations
\* in and strictly before the other.
C8_Witness ==
    \E t, u \in ThreadIds :
        /\ Returned(t, "lib") /\ Returned(u, "lib")
        /\ call[t].seed = call[u].seed
        /\ NLt(call[t].buckets, call[u].buckets)
        /\ Len(trace[t]) >= 2 /\ Len(trace[t]) < Len(trace[u])

====
